---- MODULE Spec2Model ----
(***************************************************************************)
(* easyenv: typed accessors over the process environment.                  *)
(*                                                                         *)
(* The environment store is a map from variable names to raw values.  A    *)
(* raw value is absent, present as valid unicode text, or present as bytes *)
(* that are not valid unicode.  Text is a sequence of one-character        *)
(* strings, so that parsing is computed character by character.            *)
(*                                                                         *)
(* The crate root (lib.rs, with internal.rs) and the per-type modules      *)
(* (boolean.rs, string.rs, num.rs, duration.rs, pathbuf.rs) both define    *)
(* accessors; the ones of a module carry the module's name as a prefix     *)
(* where the crate root defines a function of the same name.               *)
(***************************************************************************)
EXTENDS Integers, Sequences, FiniteSets, TLC

VARIABLES env, last, logger_set

vars == <<env, last, logger_set>>

----------------------------------------------------------------------------
(* Bounds and input sets *)

\* Length of the exhaustively enumerated texts over Alphabet.
MaxLen == 2

Alphabet == {"0", "7", "-"}

ENV_RUST_LOG == "RUST_LOG"

DEFAULT_LOG_LEVEL == <<"i", "n", "f", "o">>

APP_VAR == "APP_VAR"

Names == {ENV_RUST_LOG, APP_VAR}

ShortTexts == UNION {[1..k -> Alphabet] : k \in 0..MaxLen}

Corpus ==
  { <<"t","r","u","e">>, <<"T","R","U","E">>,
    <<"f","a","l","s","e">>, <<"F","A","L","S","E">>,
    <<"T","r","u","e">>, <<"y","e","s">>, <<"1">>,
    <<"1","2","0">>, <<"4","2">>, <<"-","1">>, <<"1",".","5">>,
    <<"a","b","c">>, <<"5","s">>, <<" ","5">>, <<"0","0","7">>,
    <<"+">>, <<"+","7">>, <<"+","0">>, <<"+","-","7">>, <<"+","+","7">>, <<"7","+">>,
    <<"/","t","m","p">>,
    <<"2","1","4","7","4","8","3","6","4","7">>,
    <<"2","1","4","7","4","8","3","6","4","8">>,
    <<"-","2","1","4","7","4","8","3","6","4","8">>,
    <<"-","2","1","4","7","4","8","3","6","4","9">>,
    <<"1","8","4","4","6","7","4","4","0","7","3","7","0","9","5","5","1","6","1","5">>,
    <<"1","8","4","4","6","7","4","4","0","7","3","7","0","9","5","5","1","6","1","6">>,
    <<"0","1","8","4","4","6","7","4","4","0","7","3","7","0","9","5","5","1","6","1","5">>,
    <<"9","9","9","9","9","9","9","9","9","9","9","9","9","9","9","9","9","9","9","9","9">> }

Texts == ShortTexts \cup Corpus

LogTexts == { DEFAULT_LOG_LEVEL, <<"d","e","b","u","g">> }

Absent == [kind |-> "absent"]
NotUnicodeBytes == [kind |-> "bytes"]
Text(s) == [kind |-> "text", s |-> s]

RawValues(n) ==
  {Absent, NotUnicodeBytes}
    \cup {Text(s) : s \in (IF n = ENV_RUST_LOG THEN LogTexts ELSE Texts)}

DefaultBools == BOOLEAN
DefaultStrings == { <<"d">>, <<>> }
DefaultNums == { 5, -3 }
DefaultDurations == { [secs |-> <<3, 0>>], [secs |-> <<0>>] }
DefaultPaths == { [path |-> <<"/", "d">>], [path |-> <<"7">>] }
DefaultLevels == { [tag |-> "None"], [tag |-> "Some", val |-> <<"w","a","r","n">>] }

----------------------------------------------------------------------------
(* Option and Result values *)

None == [tag |-> "None"]
Some(v) == [tag |-> "Some", val |-> v]
Ok(v) == [tag |-> "Ok", val |-> v]
Err(e) == [tag |-> "Err", err |-> e]
Plain(v) == [tag |-> "Val", val |-> v]
Unit == [tag |-> "Unit"]
Panic == [tag |-> "Panic"]

\* std::env::var
env_var(e, n) ==
  CASE e[n].kind = "absent" -> Err("NotPresent")
    [] e[n].kind = "bytes" -> Err("NotUnicode")
    [] e[n].kind = "text" -> Ok(e[n].s)

\* Result::ok
ok(r) == IF r.tag = "Ok" THEN Some(r.val) ELSE None

T_true == <<"t","r","u","e">>
T_TRUE == <<"T","R","U","E">>
T_false == <<"f","a","l","s","e">>
T_FALSE == <<"F","A","L","S","E">>

----------------------------------------------------------------------------
(* Booleans: crate root (lib.rs over internal.rs) *)

\* Variant of internal_get_env_bool_internal that also takes "True".
internal_get_env_bool_internal_titlecase(e, n) ==
  LET v == ok(env_var(e, n)) IN
    IF v.tag = "None" THEN Ok(None)
    ELSE IF v.val \in {T_TRUE, T_true, <<"T","r","u","e">>} THEN Ok(Some(TRUE))
    ELSE IF v.val \in {T_FALSE, T_false} THEN Ok(Some(FALSE))
    ELSE Err("ParseError")

internal_get_env_bool_internal(e, n) ==
  LET v == ok(env_var(e, n)) IN
    IF v.tag = "None" THEN Ok(None)
    ELSE IF v.val = T_TRUE THEN Ok(Some(TRUE))
    ELSE IF v.val = T_true THEN Ok(Some(TRUE))
    ELSE IF v.val = T_FALSE THEN Ok(Some(FALSE))
    ELSE IF v.val = T_false THEN Ok(Some(FALSE))
    ELSE Err("ParseError")

get_env_bool_optional(e, n) ==
  LET v == ok(env_var(e, n)) IN
    IF v.tag = "None" THEN None
    ELSE IF v.val = T_TRUE THEN Some(TRUE)
    ELSE IF v.val = T_true THEN Some(TRUE)
    ELSE IF v.val = T_FALSE THEN Some(FALSE)
    ELSE IF v.val = T_false THEN Some(FALSE)
    ELSE None

get_env_bool_or_default(e, n, default) ==
  LET r == internal_get_env_bool_internal(e, n) IN
    IF r.tag = "Ok"
      THEN (IF r.val.tag = "None" THEN Plain(default) ELSE Plain(r.val.val))
      ELSE Plain(default)

get_env_bool_required(e, n) ==
  LET r == internal_get_env_bool_internal(e, n) IN
    IF r.tag = "Ok"
      THEN (IF r.val.tag = "None" THEN Err("RequiredNotPresent") ELSE Ok(r.val.val))
      ELSE r

(* Booleans: boolean.rs *)

boolean_get_env_bool_internal(e, n) ==
  LET r == env_var(e, n) IN
    IF r.tag = "Err"
      THEN (IF r.err = "NotPresent" THEN Ok(None) ELSE Err("NotUnicode"))
    ELSE IF r.val = T_TRUE THEN Ok(Some(TRUE))
    ELSE IF r.val = T_true THEN Ok(Some(TRUE))
    ELSE IF r.val = T_FALSE THEN Ok(Some(FALSE))
    ELSE IF r.val = T_false THEN Ok(Some(FALSE))
    ELSE Err("ParseError")

boolean_get_env_bool_optional(e, n) ==
  LET v == ok(env_var(e, n)) IN
    IF v.tag = "None" THEN None
    ELSE IF v.val = T_TRUE THEN Some(TRUE)
    ELSE IF v.val = T_true THEN Some(TRUE)
    ELSE IF v.val = T_FALSE THEN Some(FALSE)
    ELSE IF v.val = T_false THEN Some(FALSE)
    ELSE None

boolean_get_env_bool_or_default(e, n, default) ==
  LET r == boolean_get_env_bool_internal(e, n) IN
    IF r.tag = "Ok"
      THEN (IF r.val.tag = "None" THEN Plain(default) ELSE Plain(r.val.val))
      ELSE Plain(default)

boolean_get_env_bool_required(e, n) ==
  LET r == boolean_get_env_bool_internal(e, n) IN
    IF r.tag = "Ok"
      THEN (IF r.val.tag = "None" THEN Err("RequiredNotPresent") ELSE Ok(r.val.val))
      ELSE r

----------------------------------------------------------------------------
(* Strings: crate root (lib.rs) and string.rs *)

get_env_string_optional(e, n) ==
  LET v == ok(env_var(e, n)) IN
    IF v.tag = "Some" THEN Some(v.val) ELSE None

\* Variant of get_env_string_or_default that prefers a non-empty default.
get_env_string_or_default_prefers_default(e, n, default) ==
  LET v == ok(env_var(e, n)) IN
    IF v.tag = "Some" /\ default = <<>> THEN Plain(v.val) ELSE Plain(default)

get_env_string_or_default(e, n, default) ==
  LET v == ok(env_var(e, n)) IN
    IF v.tag = "Some" THEN Plain(v.val) ELSE Plain(default)

get_env_string_required(e, n) ==
  LET v == ok(env_var(e, n)) IN
    IF v.tag = "Some" THEN Ok(v.val) ELSE Err("RequiredNotPresent")

string_get_env_string_optional(e, n) ==
  LET v == ok(env_var(e, n)) IN
    IF v.tag = "Some" THEN Some(v.val) ELSE None

string_get_env_string_or_default(e, n, default) ==
  LET v == ok(env_var(e, n)) IN
    IF v.tag = "Some" THEN Plain(v.val) ELSE Plain(default)

string_get_env_string_required(e, n) ==
  LET v == ok(env_var(e, n)) IN
    IF v.tag = "Some" THEN Ok(v.val) ELSE Err("RequiredNotPresent")

----------------------------------------------------------------------------
(* str::parse for the integer types (core::num from_str_radix, radix 10) *)

DigitChars == {"0", "1", "2", "3", "4", "5", "6", "7", "8", "9"}

\* char::to_digit(10) on a decimal digit
to_digit(c) ==
  CASE c = "0" -> 0 [] c = "1" -> 1 [] c = "2" -> 2 [] c = "3" -> 3
    [] c = "4" -> 4 [] c = "5" -> 5 [] c = "6" -> 6 [] c = "7" -> 7
    [] c = "8" -> 8 [] c = "9" -> 9

I32_MAX == 2147483647
I32_MIN == (-2147483647) - 1

\* i32::checked_mul(acc, 10)
i32_checked_mul10(acc) ==
  IF acc > I32_MAX \div 10 \/ acc < -(I32_MAX \div 10) THEN None ELSE Some(acc * 10)

\* i32::checked_add(acc, d), 0 <= d <= 9
i32_checked_add(acc, d) ==
  IF acc > I32_MAX - d THEN None ELSE Some(acc + d)

\* i32::checked_sub(acc, d), 0 <= d <= 9
i32_checked_sub(acc, d) ==
  IF acc < I32_MIN + d THEN None ELSE Some(acc - d)

RECURSIVE parse_i32_digits(_, _, _, _)
parse_i32_digits(s, i, positive, acc) ==
  IF i > Len(s) THEN Ok(acc)
  ELSE IF s[i] \notin DigitChars THEN Err("InvalidDigit")
  ELSE LET m == i32_checked_mul10(acc) IN
    IF m.tag = "None" THEN Err(IF positive THEN "PosOverflow" ELSE "NegOverflow")
    ELSE LET a == IF positive THEN i32_checked_add(m.val, to_digit(s[i]))
                              ELSE i32_checked_sub(m.val, to_digit(s[i])) IN
      IF a.tag = "None" THEN Err(IF positive THEN "PosOverflow" ELSE "NegOverflow")
      ELSE parse_i32_digits(s, i + 1, positive, a.val)

\* val.parse::<T>() with T = i32
parse_i32(s) ==
  IF Len(s) = 0 THEN Err("Empty")
  ELSE IF s[1] \in {"+", "-"} /\ Len(s) = 1 THEN Err("InvalidDigit")
  ELSE IF s[1] = "+" THEN parse_i32_digits(s, 2, TRUE, 0)
  ELSE IF s[1] = "-" THEN parse_i32_digits(s, 2, FALSE, 0)
  ELSE parse_i32_digits(s, 1, TRUE, 0)

(* A u64 is held as its decimal numeral: a sequence of digits 0..9 with no *)
(* leading zero, <<0>> for zero.                                           *)

U64_MAX == <<1, 8, 4, 4, 6, 7, 4, 4, 0, 7, 3, 7, 0, 9, 5, 5, 1, 6, 1, 5>>

RECURSIVE numeral_gt_from(_, _, _)
numeral_gt_from(a, b, i) ==
  IF i > Len(a) THEN FALSE
  ELSE IF a[i] # b[i] THEN a[i] > b[i]
  ELSE numeral_gt_from(a, b, i + 1)

\* a > b on numerals
numeral_gt(a, b) ==
  Len(a) > Len(b) \/ (Len(a) = Len(b) /\ numeral_gt_from(a, b, 1))

\* u64::checked_mul(acc, 10)
u64_checked_mul10(acc) ==
  LET r == IF acc = <<0>> THEN <<0>> ELSE Append(acc, 0) IN
    IF numeral_gt(r, U64_MAX) THEN None ELSE Some(r)

\* u64::checked_add(acc, d), 0 <= d <= 9, acc a multiple of ten
u64_checked_add(acc, d) ==
  LET r == [acc EXCEPT ![Len(acc)] = d] IN
    IF numeral_gt(r, U64_MAX) THEN None ELSE Some(r)

RECURSIVE parse_u64_digits(_, _, _)
parse_u64_digits(s, i, acc) ==
  IF i > Len(s) THEN Ok(acc)
  ELSE IF s[i] \notin DigitChars THEN Err("InvalidDigit")
  ELSE LET m == u64_checked_mul10(acc) IN
    IF m.tag = "None" THEN Err("PosOverflow")
    ELSE LET a == u64_checked_add(m.val, to_digit(s[i])) IN
      IF a.tag = "None" THEN Err("PosOverflow")
      ELSE parse_u64_digits(s, i + 1, a.val)

\* Variant of parse_u64 that strips a leading minus sign as well.
parse_u64_signed(s) ==
  IF Len(s) = 0 THEN Err("Empty")
  ELSE IF s[1] \in {"+", "-"} /\ Len(s) = 1 THEN Err("InvalidDigit")
  ELSE IF s[1] \in {"+", "-"} THEN parse_u64_digits(s, 2, <<0>>)
  ELSE parse_u64_digits(s, 1, <<0>>)

\* val.parse::<u64>()
parse_u64(s) ==
  IF Len(s) = 0 THEN Err("Empty")
  ELSE IF s[1] \in {"+", "-"} /\ Len(s) = 1 THEN Err("InvalidDigit")
  ELSE IF s[1] = "+" THEN parse_u64_digits(s, 2, <<0>>)
  ELSE parse_u64_digits(s, 1, <<0>>)

\* Duration::from_secs
from_secs(number) == [secs |-> number]

\* PathBuf::from_str, which cannot fail
PathBuf_from_str(s) == Ok([path |-> s])

----------------------------------------------------------------------------
(* Numbers: crate root (lib.rs) and num.rs, at T = i32 *)

\* Variant of get_env_num that falls back to the default on a parse failure.
get_env_num_lenient(e, n, default) ==
  LET v == ok(env_var(e, n)) IN
    IF v.tag = "None" THEN Ok(default)
    ELSE LET r == parse_i32(v.val) IN
      IF r.tag = "Ok" THEN r ELSE Ok(default)

get_env_num(e, n, default) ==
  LET v == ok(env_var(e, n)) IN
    IF v.tag = "None" THEN Ok(default)
    ELSE LET r == parse_i32(v.val) IN
      IF r.tag = "Ok" THEN r ELSE Err("ParseError")

\* Variant of num_get_env_num that answers zero for an unset variable.
num_get_env_num_zero(e, n, default) ==
  LET v == ok(env_var(e, n)) IN
    IF v.tag = "None" THEN Ok(0)
    ELSE LET r == parse_i32(v.val) IN
      IF r.tag = "Ok" THEN r ELSE Err("ParseError")

num_get_env_num(e, n, default) ==
  LET v == ok(env_var(e, n)) IN
    IF v.tag = "None" THEN Ok(default)
    ELSE LET r == parse_i32(v.val) IN
      IF r.tag = "Ok" THEN r ELSE Err("ParseError")

----------------------------------------------------------------------------
(* Durations: duration.rs *)

get_env_duration_seconds_internal(e, n) ==
  LET v == ok(env_var(e, n)) IN
    IF v.tag = "None" THEN Ok(None)
    ELSE LET r == parse_u64(v.val) IN
      IF r.tag = "Ok" THEN Ok(Some(from_secs(r.val))) ELSE Err("ParseError")

get_env_duration_seconds_required(e, n) ==
  LET r == get_env_duration_seconds_internal(e, n) IN
    IF r.tag = "Ok"
      THEN (IF r.val.tag = "None" THEN Err("RequiredNotPresent") ELSE Ok(r.val.val))
      ELSE r

get_env_duration_seconds_optional(e, n) ==
  LET r == get_env_duration_seconds_internal(e, n) IN
    IF r.tag = "Err" THEN None
    ELSE IF r.val.tag = "None" THEN None
    ELSE Some(r.val.val)

get_env_duration_seconds_or_default(e, n, default) ==
  LET r == get_env_duration_seconds_internal(e, n) IN
    IF r.tag = "Ok"
      THEN (IF r.val.tag = "None" THEN Plain(default) ELSE Plain(r.val.val))
      ELSE Plain(default)

----------------------------------------------------------------------------
(* Paths: pathbuf.rs *)

\* Variant of get_env_pathbuf_internal that takes absolute paths only.
get_env_pathbuf_internal_absolute(e, n) ==
  LET r == env_var(e, n) IN
    IF r.tag = "Err"
      THEN (IF r.err = "NotPresent" THEN Ok(None) ELSE Err("ParseError"))
      ELSE IF Len(r.val) > 0 /\ r.val[1] = "/"
        THEN Ok(Some([path |-> r.val]))
        ELSE Err("ParseError")

get_env_pathbuf_internal(e, n) ==
  LET r == env_var(e, n) IN
    IF r.tag = "Err"
      THEN (IF r.err = "NotPresent" THEN Ok(None) ELSE Err("ParseError"))
      ELSE LET p == PathBuf_from_str(r.val) IN
        IF p.tag = "Ok" THEN Ok(Some(p.val)) ELSE Err("ParseError")

get_env_pathbuf_required(e, n) ==
  LET r == get_env_pathbuf_internal(e, n) IN
    IF r.tag = "Ok"
      THEN (IF r.val.tag = "None" THEN Err("RequiredNotPresent") ELSE Ok(r.val.val))
      ELSE r

get_env_pathbuf_optional(e, n) ==
  LET r == get_env_pathbuf_internal(e, n) IN
    IF r.tag = "Err" THEN None
    ELSE IF r.val.tag = "None" THEN None
    ELSE Some(r.val.val)

get_env_pathbuf_or_default(e, n, default_value) ==
  LET r == get_env_pathbuf_internal(e, n) IN
    IF r.tag = "Ok"
      THEN (IF r.val.tag = "None" THEN Plain(default_value) ELSE Plain(r.val.val))
      ELSE Plain(default_value)

----------------------------------------------------------------------------
(* Logger bootstrap: lib.rs *)

\* Option::unwrap_or
unwrap_or(o, d) == IF o.tag = "Some" THEN o.val ELSE d

\* Variant of init_env_logger_env that writes the level to every variable.
init_env_logger_env_all(e, default_if_absent) ==
  IF ok(env_var(e, ENV_RUST_LOG)).tag = "None"
    THEN [n \in Names |-> Text(unwrap_or(default_if_absent, DEFAULT_LOG_LEVEL))]
    ELSE e

\* The environment store after init_env_logger's conditional set_var.
init_env_logger_env(e, default_if_absent) ==
  IF ok(env_var(e, ENV_RUST_LOG)).tag = "None"
    THEN [e EXCEPT ![ENV_RUST_LOG] = Text(unwrap_or(default_if_absent, DEFAULT_LOG_LEVEL))]
    ELSE e

----------------------------------------------------------------------------
(* The process: one call after another on the environment store *)

NoArg == [tag |-> "NoArg"]

Call(op, n, d, r) == [op |-> op, name |-> n, dflt |-> d, result |-> r]

\* A panic ends the (single-threaded) process.
Alive == last.result.tag # "Panic"

Init ==
  /\ env \in [Names -> UNION {RawValues(n) : n \in Names}]
  /\ \A n \in Names : env[n] \in RawValues(n)
  /\ last = Call("start", APP_VAR, NoArg, Unit)
  /\ logger_set = FALSE

Do_get_env_bool_optional ==
  /\ Alive
  /\ \E n \in Names :
       last' = Call("get_env_bool_optional", n, NoArg, get_env_bool_optional(env, n))
  /\ UNCHANGED <<env, logger_set>>

Do_get_env_bool_or_default ==
  /\ Alive
  /\ \E n \in Names, d \in DefaultBools :
       last' = Call("get_env_bool_or_default", n, d, get_env_bool_or_default(env, n, d))
  /\ UNCHANGED <<env, logger_set>>

Do_get_env_bool_required ==
  /\ Alive
  /\ \E n \in Names :
       last' = Call("get_env_bool_required", n, NoArg, get_env_bool_required(env, n))
  /\ UNCHANGED <<env, logger_set>>

Do_boolean_get_env_bool_optional ==
  /\ Alive
  /\ \E n \in Names :
       last' = Call("boolean_get_env_bool_optional", n, NoArg, boolean_get_env_bool_optional(env, n))
  /\ UNCHANGED <<env, logger_set>>

Do_boolean_get_env_bool_or_default ==
  /\ Alive
  /\ \E n \in Names, d \in DefaultBools :
       last' = Call("boolean_get_env_bool_or_default", n, d, boolean_get_env_bool_or_default(env, n, d))
  /\ UNCHANGED <<env, logger_set>>

Do_boolean_get_env_bool_required ==
  /\ Alive
  /\ \E n \in Names :
       last' = Call("boolean_get_env_bool_required", n, NoArg, boolean_get_env_bool_required(env, n))
  /\ UNCHANGED <<env, logger_set>>

Do_get_env_string_optional ==
  /\ Alive
  /\ \E n \in Names :
       last' = Call("get_env_string_optional", n, NoArg, get_env_string_optional(env, n))
  /\ UNCHANGED <<env, logger_set>>

Do_get_env_string_or_default ==
  /\ Alive
  /\ \E n \in Names, d \in DefaultStrings :
       last' = Call("get_env_string_or_default", n, d, get_env_string_or_default(env, n, d))
  /\ UNCHANGED <<env, logger_set>>

Do_get_env_string_required ==
  /\ Alive
  /\ \E n \in Names :
       last' = Call("get_env_string_required", n, NoArg, get_env_string_required(env, n))
  /\ UNCHANGED <<env, logger_set>>

Do_string_get_env_string_optional ==
  /\ Alive
  /\ \E n \in Names :
       last' = Call("string_get_env_string_optional", n, NoArg, string_get_env_string_optional(env, n))
  /\ UNCHANGED <<env, logger_set>>

Do_string_get_env_string_or_default ==
  /\ Alive
  /\ \E n \in Names, d \in DefaultStrings :
       last' = Call("string_get_env_string_or_default", n, d, string_get_env_string_or_default(env, n, d))
  /\ UNCHANGED <<env, logger_set>>

Do_string_get_env_string_required ==
  /\ Alive
  /\ \E n \in Names :
       last' = Call("string_get_env_string_required", n, NoArg, string_get_env_string_required(env, n))
  /\ UNCHANGED <<env, logger_set>>

Do_get_env_num ==
  /\ Alive
  /\ \E n \in Names, d \in DefaultNums :
       last' = Call("get_env_num", n, d, get_env_num(env, n, d))
  /\ UNCHANGED <<env, logger_set>>

Do_num_get_env_num ==
  /\ Alive
  /\ \E n \in Names, d \in DefaultNums :
       last' = Call("num_get_env_num", n, d, num_get_env_num(env, n, d))
  /\ UNCHANGED <<env, logger_set>>

Do_get_env_duration_seconds_required ==
  /\ Alive
  /\ \E n \in Names :
       last' = Call("get_env_duration_seconds_required", n, NoArg, get_env_duration_seconds_required(env, n))
  /\ UNCHANGED <<env, logger_set>>

Do_get_env_duration_seconds_optional ==
  /\ Alive
  /\ \E n \in Names :
       last' = Call("get_env_duration_seconds_optional", n, NoArg, get_env_duration_seconds_optional(env, n))
  /\ UNCHANGED <<env, logger_set>>

Do_get_env_duration_seconds_or_default ==
  /\ Alive
  /\ \E n \in Names, d \in DefaultDurations :
       last' = Call("get_env_duration_seconds_or_default", n, d, get_env_duration_seconds_or_default(env, n, d))
  /\ UNCHANGED <<env, logger_set>>

Do_get_env_pathbuf_required ==
  /\ Alive
  /\ \E n \in Names :
       last' = Call("get_env_pathbuf_required", n, NoArg, get_env_pathbuf_required(env, n))
  /\ UNCHANGED <<env, logger_set>>

Do_get_env_pathbuf_optional ==
  /\ Alive
  /\ \E n \in Names :
       last' = Call("get_env_pathbuf_optional", n, NoArg, get_env_pathbuf_optional(env, n))
  /\ UNCHANGED <<env, logger_set>>

Do_get_env_pathbuf_or_default ==
  /\ Alive
  /\ \E n \in Names, d \in DefaultPaths :
       last' = Call("get_env_pathbuf_or_default", n, d, get_env_pathbuf_or_default(env, n, d))
  /\ UNCHANGED <<env, logger_set>>

\* init_env_logger: set RUST_LOG when env::var fails on it, then
\* env_logger::init(), which panics when a logger is already installed.
init_env_logger ==
  /\ Alive
  /\ \E d \in DefaultLevels :
       /\ env' = init_env_logger_env(env, d)
       /\ last' = Call("init_env_logger", ENV_RUST_LOG, d,
                       IF logger_set THEN Panic ELSE Unit)
  /\ logger_set' = TRUE

\* The host process changes its environment store between calls.
host_set_var ==
  /\ Alive
  /\ \E n \in Names : \E v \in RawValues(n) \ {Absent} :
       /\ env' = [env EXCEPT ![n] = v]
       /\ last' = Call("set_var", n, NoArg, Unit)
  /\ UNCHANGED logger_set

host_remove_var ==
  /\ Alive
  /\ \E n \in Names :
       /\ env' = [env EXCEPT ![n] = Absent]
       /\ last' = Call("remove_var", n, NoArg, Unit)
  /\ UNCHANGED logger_set

Next ==
  \/ Do_get_env_bool_optional
  \/ Do_get_env_bool_or_default
  \/ Do_get_env_bool_required
  \/ Do_boolean_get_env_bool_optional
  \/ Do_boolean_get_env_bool_or_default
  \/ Do_boolean_get_env_bool_required
  \/ Do_get_env_string_optional
  \/ Do_get_env_string_or_default
  \/ Do_get_env_string_required
  \/ Do_string_get_env_string_optional
  \/ Do_string_get_env_string_or_default
  \/ Do_string_get_env_string_required
  \/ Do_get_env_num
  \/ Do_num_get_env_num
  \/ Do_get_env_duration_seconds_required
  \/ Do_get_env_duration_seconds_optional
  \/ Do_get_env_duration_seconds_or_default
  \/ Do_get_env_pathbuf_required
  \/ Do_get_env_pathbuf_optional
  \/ Do_get_env_pathbuf_or_default
  \/ init_env_logger
  \/ host_set_var
  \/ host_remove_var

Spec == Init /\ [][Next]_vars

----------------------------------------------------------------------------
(* Vocabulary of the properties *)

OptionalOps ==
  { "get_env_bool_optional", "boolean_get_env_bool_optional",
    "get_env_string_optional", "string_get_env_string_optional",
    "get_env_duration_seconds_optional", "get_env_pathbuf_optional" }

DefaultOps ==
  { "get_env_bool_or_default", "boolean_get_env_bool_or_default",
    "get_env_string_or_default", "string_get_env_string_or_default",
    "get_env_duration_seconds_or_default", "get_env_pathbuf_or_default" }

RequiredOps ==
  { "get_env_bool_required", "boolean_get_env_bool_required",
    "get_env_string_required", "string_get_env_string_required",
    "get_env_duration_seconds_required", "get_env_pathbuf_required" }

NumOps == { "get_env_num", "num_get_env_num" }

AccessorOps == OptionalOps \cup DefaultOps \cup RequiredOps \cup NumOps

BoolOps ==
  { "get_env_bool_optional", "boolean_get_env_bool_optional",
    "get_env_bool_or_default", "boolean_get_env_bool_or_default",
    "get_env_bool_required", "boolean_get_env_bool_required" }

StringOps ==
  { "get_env_string_optional", "string_get_env_string_optional",
    "get_env_string_or_default", "string_get_env_string_or_default",
    "get_env_string_required", "string_get_env_string_required" }

DurationOps ==
  { "get_env_duration_seconds_optional", "get_env_duration_seconds_or_default",
    "get_env_duration_seconds_required" }

PathOps ==
  { "get_env_pathbuf_optional", "get_env_pathbuf_or_default",
    "get_env_pathbuf_required" }

\* The raw value the last call looked up (accessors leave the store alone).
Seen == env[last.name]

IsErr(r, kind) == r.tag = "Err" /\ r.err = kind

\* The last call produced the value v, in the shape of its mode.
Yields(v) ==
  CASE last.op \in OptionalOps -> last.result.tag = "Some" /\ last.result.val = v
    [] last.op \in DefaultOps -> last.result.tag = "Val" /\ last.result.val = v
    [] OTHER -> last.result.tag = "Ok" /\ last.result.val = v

\* The last call treated the value as unparseable, in the shape of its mode.
Rejects ==
  CASE last.op \in OptionalOps -> last.result.tag = "None"
    [] last.op \in DefaultOps -> last.result.tag = "Val" /\ last.result.val = last.dflt
    [] OTHER -> IsErr(last.result, "ParseError")

\* The last call treated the variable as missing, in the shape of its mode.
ReportsAbsent ==
  CASE last.op \in OptionalOps -> last.result.tag = "None"
    [] last.op \in DefaultOps -> last.result.tag = "Val" /\ last.result.val = last.dflt
    [] last.op \in NumOps -> last.result.tag = "Ok" /\ last.result.val = last.dflt
    [] OTHER -> IsErr(last.result, "RequiredNotPresent")

(* Decimal notation, read off the text independently of the parsers *)

RECURSIVE StripZeros(_)
StripZeros(ds) ==
  IF Len(ds) > 1 /\ ds[1] = 0 THEN StripZeros(Tail(ds)) ELSE ds

AllDigits(s) == Len(s) > 0 /\ \A i \in 1..Len(s) : s[i] \in DigitChars

DigitsOf(s) == StripZeros([i \in 1..Len(s) |-> to_digit(s[i])])

NumeralLE(a, b) ==
  \/ Len(a) < Len(b)
  \/ /\ Len(a) = Len(b)
     /\ \/ a = b
        \/ \E i \in 1..Len(a) : a[i] < b[i] /\ \A j \in 1..(i - 1) : a[j] = b[j]

\* s is a non-negative whole number in decimal, with an optional plus sign.
UnsignedBody(s) == IF Len(s) > 0 /\ s[1] = "+" THEN Tail(s) ELSE s
IsNonNegativeInteger(s) == AllDigits(UnsignedBody(s))
SecondsOf(s) == DigitsOf(UnsignedBody(s))
FitsU64(s) == NumeralLE(SecondsOf(s), U64_MAX)

\* s is a whole number in decimal with an optional sign, within i32.
SignedBody(s) == IF Len(s) > 0 /\ s[1] \in {"+", "-"} THEN Tail(s) ELSE s
IsNegative(s) == Len(s) > 0 /\ s[1] = "-"
RECURSIVE SignedValue(_, _)
SignedValue(ds, sign) ==
  IF Len(ds) = 0 THEN 0
  ELSE SignedValue(SubSeq(ds, 1, Len(ds) - 1), sign) * 10 + sign * ds[Len(ds)]
IsI32Text(s) ==
  /\ AllDigits(SignedBody(s))
  /\ NumeralLE(DigitsOf(SignedBody(s)),
               IF IsNegative(s) THEN <<2,1,4,7,4,8,3,6,4,8>> ELSE <<2,1,4,7,4,8,3,6,4,7>>)
I32Of(s) == SignedValue(DigitsOf(SignedBody(s)), IF IsNegative(s) THEN -1 ELSE 1)

----------------------------------------------------------------------------
(* Properties *)

\* C1: for every accessor and every unset variable, the optional accessor
\* returns no value, the default accessor returns exactly the caller's
\* default (Ok(default) for get_env_num), and the required accessor returns
\* RequiredNotPresent.
C1_UnsetContract ==
  (last.op \in AccessorOps /\ Seen.kind = "absent") => ReportsAbsent

C1_Witness ==
  /\ last.op = "num_get_env_num"
  /\ Seen.kind = "absent"
  /\ last.dflt = 5
  /\ last.result.tag = "Ok" /\ last.result.val = 5

\* C2: boolean parsing is case-sensitive and closed: the texts "true" and
\* "TRUE" yield true, "false" and "FALSE" yield false, and every other text
\* is no value (optional), the default (or_default) or ParseError (required).
C2_BooleanLiterals ==
  (last.op \in BoolOps /\ Seen.kind = "text") =>
    IF Seen.s \in {T_true, T_TRUE} THEN Yields(TRUE)
    ELSE IF Seen.s \in {T_false, T_FALSE} THEN Yields(FALSE)
    ELSE Rejects

C2_Witness ==
  /\ last.op = "get_env_bool_required"
  /\ Seen = Text(<<"T","r","u","e">>)
  /\ IsErr(last.result, "ParseError")

\* C3: get_env_num returns Ok(default) for an unset variable, Ok(parsed
\* value) for text that parses as the numeric type, and Err(ParseError),
\* never the default, for text that does not parse (the empty text included).
C3_NumNoSilentDefault ==
  last.op \in NumOps =>
    /\ Seen.kind = "absent" =>
         (last.result.tag = "Ok" /\ last.result.val = last.dflt)
    /\ (Seen.kind = "text" /\ IsI32Text(Seen.s)) =>
         (last.result.tag = "Ok" /\ last.result.val = I32Of(Seen.s))
    /\ (Seen.kind = "text" /\ ~IsI32Text(Seen.s)) =>
         IsErr(last.result, "ParseError")

C3_Witness ==
  /\ last.op = "get_env_num"
  /\ Seen = Text(<<>>)
  /\ last.dflt = 5
  /\ IsErr(last.result, "ParseError")

\* C4 as stated: every text that is a non-negative whole number n yields a
\* duration of exactly n seconds in all three modes, and every other text is
\* a parse failure.
C4_AllNonNegativeIntegers ==
  (last.op \in DurationOps /\ Seen.kind = "text") =>
    IF IsNonNegativeInteger(Seen.s)
      THEN Yields(from_secs(SecondsOf(Seen.s)))
      ELSE Rejects

\* C4 amended: a text of decimal digits with an optional leading plus sign
\* whose value n is at most 2^64 - 1 yields a duration of exactly n seconds
\* in all three modes; every other text, a whole number above 2^64 - 1
\* included, is a parse failure.
C4_U64Seconds ==
  (last.op \in DurationOps /\ Seen.kind = "text") =>
    IF IsNonNegativeInteger(Seen.s) /\ FitsU64(Seen.s)
      THEN Yields(from_secs(SecondsOf(Seen.s)))
      ELSE Rejects

C4_Witness ==
  /\ last.op = "get_env_duration_seconds_required"
  /\ Seen = Text(<<"1","2","0">>)
  /\ last.result.tag = "Ok" /\ last.result.val = [secs |-> <<1, 2, 0>>]

\* C5: whenever the variable currently holds the text s, each string
\* accessor returns exactly s: Some(s), s in place of any default, Ok(s).
C5_StringRoundTrip ==
  (last.op \in StringOps /\ Seen.kind = "text") => Yields(Seen.s)

C5_Witness ==
  /\ last.op = "get_env_string_or_default"
  /\ Seen = Text(<<"/","t","m","p">>)
  /\ last.dflt = <<"d">>
  /\ last.result.val = <<"/","t","m","p">>

\* C6: a call of init_env_logger with RUST_LOG already set leaves the
\* value of RUST_LOG as it was, whatever default_if_absent is passed.
C6_NeverOverwrites ==
  [][(last'.op = "init_env_logger" /\ env[ENV_RUST_LOG].kind # "absent")
       => env'[ENV_RUST_LOG] = env[ENV_RUST_LOG]]_vars

\* C7: get_env_bool_required answers RequiredNotPresent for an absent
\* variable, ParseError for text that is no boolean literal, and NotUnicode
\* for a present value that is not valid unicode.
C7_ThreeFailureKinds ==
  last.op \in {"get_env_bool_required", "boolean_get_env_bool_required"} =>
    /\ Seen.kind = "absent" => IsErr(last.result, "RequiredNotPresent")
    /\ (Seen.kind = "text" /\ Seen.s \notin {T_true, T_TRUE, T_false, T_FALSE})
         => IsErr(last.result, "ParseError")
    /\ Seen.kind = "bytes" => IsErr(last.result, "NotUnicode")

\* C8: a required accessor answers RequiredNotPresent only when the
\* variable is absent from the environment.
C8_RequiredNotPresentOnlyWhenAbsent ==
  (last.op \in RequiredOps /\ IsErr(last.result, "RequiredNotPresent"))
    => Seen.kind = "absent"

\* C9: the path accessors take every non-empty valid text s as the path s
\* (Some, in place of the default, Ok), and ParseError comes only from a
\* value that is not valid text.
C9_PathAcceptsText ==
  last.op \in PathOps =>
    /\ (Seen.kind = "text" /\ Len(Seen.s) > 0) => Yields([path |-> Seen.s])
    /\ IsErr(last.result, "ParseError") => Seen.kind = "bytes"

C9_Witness ==
  /\ last.op = "get_env_pathbuf_or_default"
  /\ Seen = Text(<<"7">>)
  /\ last.dflt = [path |-> <<"/", "d">>]
  /\ last.result.val = [path |-> <<"7">>]

\* C10: no accessor call changes the environment store, whatever it
\* returns, and init_env_logger changes no variable other than RUST_LOG.
C10_Frame ==
  [][/\ last'.op \in AccessorOps => env' = env
     /\ last'.op = "init_env_logger" =>
          \A n \in Names \ {ENV_RUST_LOG} : env'[n] = env[n]]_vars

C10_Witness ==
  /\ last.op = "init_env_logger"
  /\ last.dflt.tag = "Some"
  /\ env[ENV_RUST_LOG] = Text(last.dflt.val)
  /\ env[APP_VAR].kind = "text"

====
